---- MODULE Spec2Model ----
(***************************************************************************)
(* nix-docgen: the documentation-to-index compiler.                        *)
(*                                                                         *)
(*   src/zeal/generate_index.py  the lib-function index script:            *)
(*       table setup, register_section, remove_ansi_escape_codes,          *)
(*       ingest_lib_documentation, commit                                  *)
(*   src/main.py                 generate_zeal: table setup,               *)
(*       register_section, the two table-of-contents walks, the options    *)
(*       scan, commit, page-tree copy and archive                          *)
(*                                                                         *)
(* A Python str is modelled as a sequence of one-character strings, so     *)
(* that strip, split, startswith and the escape-code regex are computed    *)
(* character by character. The byte 0x1b is the token "ESC".               *)
(***************************************************************************)
EXTENDS Integers, Sequences, FiniteSets, TLC

VARIABLES
    program,        \* which script owns the index: "main" or "generate_index"
    pc,             \* position of the running script
    fileTable,      \* searchIndex as committed in the index file
    rows,           \* searchIndex as seen through the open connection
    OBJECTS,        \* the in-memory dict name -> value
    calls,          \* history: arguments of the register_section calls of the current producer
    ncalls,         \* history: number of RegisterCall steps over all runs (SpecIndex)
    runs,           \* history: number of times the script was started on this index file
    prevFile,       \* history: fileTable as it was when the current run started
    lines,          \* ingest_lib_documentation: the decoded stdout, split on "\n"
    pos,            \* ingest_lib_documentation: index of the next line of the iterator
    curdoc,         \* ingest_lib_documentation: accumulation buffer
    funcname,       \* ingest_lib_documentation: current-name cursor (None when unset)
    emitAt,         \* history: line index at which each register_section call of the ingest was made
    toc,            \* generate_zeal: the parsed manual, [found, children] of div.toc
    idx,            \* generate_zeal: index of the next element of the running for loop
    DOC_NAME,       \* generate_zeal: DOC_NAME
    SECTION_NAME,   \* generate_zeal: SECTION_NAME
    options,        \* generate_zeal: the a.term elements of options.html
    archive,        \* generate_zeal: the file at output_file: "absent", "partial", "complete"
    documents,      \* generate_zeal: page trees copied under Contents/Resources/Documents
    failure,        \* generate_zeal: the line that raised, 0 while none has
    nodes           \* history: nodes of the pages read so far in this run

vars == <<program, pc, fileTable, rows, OBJECTS, calls, ncalls, runs, prevFile,
          lines, pos, curdoc, funcname, emitAt,
          toc, idx, DOC_NAME, SECTION_NAME, options, archive, documents, failure, nodes>>

indexVars == <<program, fileTable, rows, OBJECTS, calls, ncalls, runs, prevFile>>
ingestVars == <<lines, pos, curdoc, funcname, emitAt>>
zealVars == <<toc, idx, DOC_NAME, SECTION_NAME, options, archive, documents, failure, nodes>>

(***************************************************************************)
(* Bounds of the model.                                                    *)
(***************************************************************************)
MaxCalls == 3       \* register_section calls over the runs of one index file
MaxRuns == 2        \* starts of the script on one index file
MaxLines == 4       \* lines of one nix-doc output
MaxNodes == 4       \* nodes of the three pages of one run: the descendants of the two
                    \* div.toc (dt, dd, span.chapter, other) and the a.term anchors

(***************************************************************************)
(* Python str helpers.                                                     *)
(***************************************************************************)
ESC == "ESC"

\* str.strip() with no argument removes leading and trailing whitespace
\* (the vertical tab has no TLA+ escape and is left out).
Whitespace == {" ", "\t", "\n", "\r", "\f"}

RECURSIVE lstrip(_)
lstrip(s) == IF s # <<>> /\ Head(s) \in Whitespace THEN lstrip(Tail(s)) ELSE s

RECURSIVE rstrip(_)
rstrip(s) ==
    IF s # <<>> /\ s[Len(s)] \in Whitespace THEN rstrip(SubSeq(s, 1, Len(s) - 1)) ELSE s

strip(s) == rstrip(lstrip(s))

startswith(s, prefix) ==
    Len(s) >= Len(prefix) /\ SubSeq(s, 1, Len(prefix)) = prefix

endswith(s, suffix) ==
    Len(s) >= Len(suffix) /\ SubSeq(s, Len(s) - Len(suffix) + 1, Len(s)) = suffix

\* s.split(sep)[0]: the text before the first sep, the whole of s when it has none
RECURSIVE splitFirst(_, _)
splitFirst(s, sep) ==
    IF s = <<>> \/ Head(s) = sep THEN <<>> ELSE <<Head(s)>> \o splitFirst(Tail(s), sep)

\* f"{x}" of a str or of None
None == <<"<None>">>
format(x) == IF x = None THEN <<"N", "o", "n", "e">> ELSE x

(***************************************************************************)
(* The searchIndex table and register_section.                             *)
(***************************************************************************)
\* A table is [exists, rows]; a row is [id, name, type, path].
NoTable == [exists |-> FALSE, rows |-> {}]

Table(rs) == [exists |-> TRUE, rows |-> rs]

EmptyDict == [k \in {} |-> <<>>]

\* what OBJECTS.setdefault(key, value) would do
DictSetDefault(d, k, v) == [x \in (DOMAIN d) \cup {k} |-> IF x \in DOMAIN d THEN d[x] ELSE v]

\* d[k] = v
DictSet(d, k, v) == [x \in (DOMAIN d) \cup {k} |-> IF x = k THEN v ELSE d[x]]

Triple(r) == <<r.name, r.type, r.path>>

Triples(tbl) == {Triple(r) : r \in tbl.rows}

\* INTEGER PRIMARY KEY: an insert without id takes the largest id plus one
NextRowId(rs) ==
    IF rs = {} THEN 1 ELSE 1 + (CHOOSE m \in {r.id : r \in rs} : \A r \in rs : r.id <= m)

Insert(tbl, name, type, path) ==
    Table(tbl.rows \cup {[id |-> NextRowId(tbl.rows), name |-> name, type |-> type, path |-> path]})

\* what a plain INSERT into a table without the unique index would do
InsertAlways(tbl, name, type, path) == Insert(tbl, name, type, path)

\* INSERT OR IGNORE under the UNIQUE INDEX anchor ON searchIndex (name, type, path)
InsertOrIgnore(tbl, name, type, path) ==
    IF <<name, type, path>> \in Triples(tbl) THEN tbl ELSE Insert(tbl, name, type, path)

\* what CREATE TABLE IF NOT EXISTS without the drop would do
KeepTable(tbl) == Table(tbl.rows)

\* try: DROP TABLE searchIndex; except: pass -- then CREATE TABLE and CREATE UNIQUE INDEX.
\* The drop removes the table with its rows and its index, and raises (swallowed)
\* when there is no table; the create then always finds no table.
RecreateTable(tbl) == Table({})

\* st is [rows, OBJECTS]; both register_section functions strip key and value,
\* overwrite OBJECTS[key] and insert-or-ignore the row.
\* generate_index.py: the row's path is "#" + key.
register_section(st, key, value, kind) ==
    LET k == strip(key)
        v == strip(value)
    IN  [rows |-> InsertOrIgnore(st.rows, k, kind, <<"#">> \o k),
         OBJECTS |-> DictSet(st.OBJECTS, k, v)]

\* main.py, generate_zeal.register_section: the row's path is the value.
zeal_register_section(st, key, value, kind) ==
    LET k == strip(key)
        v == strip(value)
    IN  [rows |-> InsertOrIgnore(st.rows, k, kind, v),
         OBJECTS |-> DictSet(st.OBJECTS, k, v)]

RegisterOf(prog, st, key, value, kind) ==
    IF prog = "main" THEN zeal_register_section(st, key, value, kind)
    ELSE register_section(st, key, value, kind)

Call(key, value, kind) == [key |-> key, value |-> value, kind |-> kind]

(***************************************************************************)
(* SpecIndex: register_section called with arbitrary arguments between the *)
(* table setup and the commit, and the script started again on the file.   *)
(***************************************************************************)
KeyPool == {<<"a">>, <<" ", "a">>, <<"b", "\n">>}
ValuePool == {<<"v">>, <<"w", " ">>}
KindPool == {"Function", "Environment"}

IdleIngest ==
    /\ lines = <<>> /\ pos = 1 /\ curdoc = <<>> /\ funcname = None /\ emitAt = <<>>

IdleZeal ==
    /\ toc = [found |-> FALSE, children |-> <<>>] /\ idx = 1
    /\ DOC_NAME = <<>> /\ SECTION_NAME = <<>> /\ options = <<>>
    /\ archive = "absent" /\ documents = {} /\ failure = 0 /\ nodes = 0

InitIndex ==
    /\ program \in {"main", "generate_index"}
    /\ pc = "setup"
    /\ fileTable = NoTable /\ rows = NoTable /\ OBJECTS = EmptyDict
    /\ calls = <<>> /\ ncalls = 0 /\ runs = 1 /\ prevFile = NoTable
    /\ IdleIngest /\ IdleZeal

\* generate_index.py 39-43, main.py 161-166. The DDL statements run outside a
\* transaction, so the file holds the empty table at once.
TableSetup ==
    /\ pc = "setup"
    /\ fileTable' = RecreateTable(fileTable)
    /\ rows' = fileTable'
    /\ pc' = "ingest"
    /\ UNCHANGED <<program, OBJECTS, calls, ncalls, runs, prevFile, ingestVars, zealVars>>

RegisterCall(key, value, kind) ==
    /\ pc = "ingest"
    /\ ncalls < MaxCalls
    /\ LET st == RegisterOf(program, [rows |-> rows, OBJECTS |-> OBJECTS], key, value, kind)
       IN  rows' = st.rows /\ OBJECTS' = st.OBJECTS
    /\ calls' = Append(calls, Call(key, value, kind))
    /\ ncalls' = ncalls + 1
    /\ UNCHANGED <<program, pc, fileTable, runs, prevFile, ingestVars, zealVars>>

\* conn.commit(); conn.close()
CommitClose ==
    /\ pc = "ingest"
    /\ fileTable' = rows
    /\ pc' = "closed"
    /\ UNCHANGED <<program, rows, OBJECTS, calls, ncalls, runs, prevFile, ingestVars, zealVars>>

\* The script is started again. generate_index.py connects to the same --index
\* file; generate_zeal puts docSet.dsidx in a fresh temporary directory.
Rerun ==
    /\ pc = "closed"
    /\ runs < MaxRuns
    /\ runs' = runs + 1
    /\ fileTable' = IF program = "main" THEN NoTable ELSE fileTable
    /\ prevFile' = fileTable'
    /\ rows' = NoTable
    /\ OBJECTS' = EmptyDict
    /\ calls' = <<>>
    /\ pc' = "setup"
    /\ UNCHANGED <<program, ncalls, ingestVars, zealVars>>

NextIndex ==
    \/ TableSetup
    \/ \E key \in KeyPool, value \in ValuePool, kind \in KindPool : RegisterCall(key, value, kind)
    \/ CommitClose
    \/ Rerun

SpecIndex == InitIndex /\ [][NextIndex]_vars

(***************************************************************************)
(* remove_ansi_escape_codes: the regex                                     *)
(*   \x1B (?: [@-Z\\-_] | \[ [0-?]* [ -/]* [@-~] )                         *)
(* substituted by the empty string, scanning from the left.                *)
(***************************************************************************)
Digits == {"0", "1", "2", "3", "4", "5", "6", "7", "8", "9"}
Upper == {"A", "B", "C", "D", "E", "F", "G", "H", "I", "J", "K", "L", "M",
          "N", "O", "P", "Q", "R", "S", "T", "U", "V", "W", "X", "Y", "Z"}
Lower == {"a", "b", "c", "d", "e", "f", "g", "h", "i", "j", "k", "l", "m",
          "n", "o", "p", "q", "r", "s", "t", "u", "v", "w", "x", "y", "z"}
\* [@-Z\\-_]
FeBytes == {"@"} \cup Upper \cup {"\\", "]", "^", "_"}
\* [0-?]
ParameterBytes == Digits \cup {":", ";", "<", "=", ">", "?"}
\* [ -/]
IntermediateBytes == {" ", "!", "\"", "#", "$", "%", "&", "'", "(", ")", "*", "+", ",", "-", ".", "/"}
\* [@-~] (the backquote cannot be written in a TLA+ string and is left out)
FinalBytes == {"@"} \cup Upper \cup {"[", "\\", "]", "^", "_"} \cup Lower \cup {"{", "|", "}", "~"}

\* the first index from i on whose character is not in class (Len(s) + 1 if none)
RECURSIVE SkipClass(_, _, _)
SkipClass(s, i, class) ==
    IF i <= Len(s) /\ s[i] \in class THEN SkipClass(s, i + 1, class) ELSE i

\* the index after the match that starts at i, 0 when the regex does not match at i.
\* The three classes of the CSI branch are disjoint, so the greedy stars never
\* give a character back.
MatchEnd(s, i) ==
    IF s[i] # ESC \/ i = Len(s) THEN 0
    ELSE IF s[i + 1] \in FeBytes THEN i + 2
    ELSE IF s[i + 1] = "["
         THEN LET k == SkipClass(s, SkipClass(s, i + 2, ParameterBytes), IntermediateBytes)
              IN  IF k <= Len(s) /\ s[k] \in FinalBytes THEN k + 1 ELSE 0
    ELSE 0

RECURSIVE SubFrom(_, _)
SubFrom(s, i) ==
    IF i > Len(s) THEN <<>>
    ELSE IF MatchEnd(s, i) # 0 THEN SubFrom(s, MatchEnd(s, i))
    ELSE <<s[i]>> \o SubFrom(s, i + 1)

remove_ansi_escape_codes(text) == SubFrom(text, 1)

(***************************************************************************)
(* ingest_lib_documentation (SpecIngest).                                  *)
(***************************************************************************)
\* '\x1b[38;5;15;1m'
NameMarker == <<ESC, "[", "3", "8", ";", "5", ";", "1", "5", ";", "1", "m">>
\* '# /nix'
LocationMarker == <<"#", " ", "/", "n", "i", "x">>
\* the default of the parameter base
Base == <<"l", "i", "b">>

\* Lines of a nix-doc output the streams are drawn from.
SigFoo == NameMarker \o <<" ", "f", "o", "o", " ", "=", " ", "x", ":", " ", "x">>
SigBar == NameMarker \o <<"b", "a", "r", ESC, "[", "0", "m", " ", "=", " ", "y">>
LocLine == <<"#", " ", "/", "n", "i", "x", "/", "s", "t", "o", "r", "e", "/", "a", "b", "c",
             "/", "l", "i", "b", "/", "d", "e", "f", "a", "u", "l", "t", ".", "n", "i", "x",
             ":", "1", "0">>
DocLine == <<" ", " ", "d", "o", "c">>
EmptyLine == <<>>
LinePool == {SigFoo, SigBar, LocLine, DocLine, EmptyLine}

Streams == UNION {[1..n -> LinePool] : n \in 0..MaxLines}

IsSignature(line) == startswith(line, NameMarker)
IsLocation(line) == ~IsSignature(line) /\ startswith(line, LocationMarker)

InitIngest ==
    /\ program = "generate_index"
    /\ pc = "setup"
    /\ fileTable = NoTable /\ rows = NoTable /\ OBJECTS = EmptyDict
    /\ calls = <<>> /\ ncalls = 0 /\ runs = 1 /\ prevFile = NoTable
    /\ IdleIngest /\ IdleZeal

\* lines 80-84: the decoded stdout of nix-doc, split on "\n"
IngestStart ==
    /\ pc = "ingest"
    /\ \E stream \in Streams : lines' = stream
    /\ pos' = 1 /\ curdoc' = <<>> /\ funcname' = None /\ emitAt' = <<>>
    /\ pc' = "loop"
    /\ UNCHANGED <<indexVars, zealVars>>

\* lines 88-92
SignatureLine ==
    /\ pc = "loop" /\ pos <= Len(lines)
    /\ IsSignature(lines[pos])
    /\ LET line == remove_ansi_escape_codes(lines[pos])
       IN  /\ funcname' = splitFirst(line, "=")
           /\ curdoc' = line \o <<" ", "\n">> \o curdoc
    /\ pos' = pos + 1
    /\ UNCHANGED <<pc, lines, emitAt, indexVars, zealVars>>

\* lines 93-105; the next(lines) of line 104 discards one line, and its
\* StopIteration ends the loop.
LocationLine ==
    /\ pc = "loop" /\ pos <= Len(lines)
    /\ IsLocation(lines[pos])
    /\ LET definedAt == SubSeq(lines[pos], 3, Len(lines[pos]))
           key == Base \o <<".">> \o format(funcname)
           value == curdoc \o <<"\n", "D", "e", "f", "i", "n", "e", "d", " ", "a", "t", ":", " ">>
                           \o definedAt
           st == register_section([rows |-> rows, OBJECTS |-> OBJECTS], key, value, "Function")
       IN  /\ rows' = st.rows /\ OBJECTS' = st.OBJECTS
           /\ calls' = Append(calls, Call(key, value, "Function"))
    /\ emitAt' = Append(emitAt, pos)
    /\ curdoc' = <<>>
    /\ funcname' = None
    /\ IF pos + 1 <= Len(lines)
       THEN pos' = pos + 2 /\ pc' = pc
       ELSE pos' = pos + 1 /\ pc' = "returned"
    /\ UNCHANGED <<program, fileTable, ncalls, runs, prevFile, lines, zealVars>>

\* line 106
BodyLine ==
    /\ pc = "loop" /\ pos <= Len(lines)
    /\ ~IsSignature(lines[pos]) /\ ~IsLocation(lines[pos])
    /\ curdoc' = curdoc \o <<"\n">> \o lines[pos]
    /\ pos' = pos + 1
    /\ UNCHANGED <<pc, lines, funcname, emitAt, indexVars, zealVars>>

\* what a parser that emits the pending record at the end of the stream would do
StreamEndFlush ==
    /\ pc = "loop" /\ pos > Len(lines)
    /\ pc' = "returned"
    /\ IF funcname # None
       THEN LET key == Base \o <<".">> \o format(funcname)
                st == register_section([rows |-> rows, OBJECTS |-> OBJECTS], key, curdoc, "Function")
            IN  /\ rows' = st.rows /\ OBJECTS' = st.OBJECTS
                /\ calls' = Append(calls, Call(key, curdoc, "Function"))
                /\ emitAt' = Append(emitAt, pos)
       ELSE UNCHANGED <<rows, OBJECTS, calls, emitAt>>
    /\ UNCHANGED <<program, fileTable, ncalls, runs, prevFile, lines, pos, curdoc, funcname, zealVars>>

\* lines 87, 107-108: next(lines) raises StopIteration, the loop breaks
StreamEnd ==
    /\ pc = "loop" /\ pos > Len(lines)
    /\ pc' = "returned"
    /\ UNCHANGED <<indexVars, ingestVars, zealVars>>

NextIngest ==
    \/ TableSetup
    \/ IngestStart
    \/ SignatureLine
    \/ LocationLine
    \/ BodyLine
    \/ StreamEnd

SpecIngest == InitIngest /\ [][NextIngest]_vars

(***************************************************************************)
(* generate_zeal (Spec).                                                   *)
(*                                                                         *)
(* A parsed page is the list findChildren() returns for div.toc: its       *)
(* descendants in document order. An element is [tag, text, a, chapters]:  *)
(* a is what select_one("a") / find("a") returns, chapters is what         *)
(* select("span.chapter") returns, each chapter a [text, a].               *)
(***************************************************************************)
NoA == [found |-> FALSE, hasHref |-> FALSE, href |-> <<>>]
AWithoutHref == [found |-> TRUE, hasHref |-> FALSE, href |-> <<>>]
A(href) == [found |-> TRUE, hasHref |-> TRUE, href |-> href]

Dt(text, a) == [tag |-> "dt", text |-> text, a |-> a, chapters |-> <<>>]
Dd(chapters) == [tag |-> "dd", text |-> <<>>, a |-> NoA, chapters |-> chapters]
Other == [tag |-> "span", text |-> <<>>, a |-> NoA, chapters |-> <<>>]
Chapter(text, a) == [text |-> text, a |-> a]

NixpkgsManual == <<"N", "i", "x", "p", "k", "g", "s", " ", "M", "a", "n", "u", "a", "l">>
NixosManual == <<"N", "i", "x", "O", "S", " ", "M", "a", "n", "u", "a", "l">>
NixosOptions == <<"N", "i", "x", "O", "S", " ", "O", "p", "t", "i", "o", "n", "s">>
Preface == <<"P", "r", "e", "f", "a", "c", "e">>
Sep == <<" ", ">", " ">>
NixpkgsDir == <<"n", "i", "x", "p", "k", "g", "s">>
NixosDir == <<"n", "i", "x", "o", "s">>

\* The pages the runs are drawn from.
TitlePool == {<<"A">>, <<"B", "\n">>}
HrefOf(text) == <<"#">> \o strip(text)
DtPool == {Dt(t, a) : t \in TitlePool, a \in {NoA, AWithoutHref}}
              \cup {Dt(t, A(HrefOf(t))) : t \in TitlePool}
ChapterPool == {Chapter(<<"g">>, a) : a \in {NoA, AWithoutHref, A(<<"#", "g">>)}}

NodeCount(e) == 1 + Len(e.chapters)

RECURSIVE ChapterLists(_)
ChapterLists(n) ==
    IF n = 0 THEN {<<>>}
    ELSE {<<>>} \cup {<<c>> \o cs : c \in ChapterPool, cs \in ChapterLists(n - 1)}

ElementPool(n) ==
    IF n = 0 THEN {}
    ELSE DtPool \cup {Other} \cup {Dd(cs) : cs \in ChapterLists(n - 1)}

\* the child lists of at most n nodes
RECURSIVE ChildLists(_)
ChildLists(n) ==
    {<<>>} \cup UNION {{<<e>> \o rest : rest \in ChildLists(n - NodeCount(e))} : e \in ElementPool(n)}

RECURSIVE Nodes(_)
Nodes(children) == IF children = <<>> THEN 0 ELSE NodeCount(Head(children)) + Nodes(Tail(children))

NoToc == [found |-> FALSE, children |-> <<>>]
Toc(children) == [found |-> TRUE, children |-> children]
Tocs(n) == {NoToc} \cup {Toc(cs) : cs \in ChildLists(n)}

TermPool == {[text |-> <<"o">>, hasHref |-> TRUE, href |-> <<"#", "o">>],
             [text |-> <<"p", " ">>, hasHref |-> TRUE, href |-> <<"#", "p">>],
             [text |-> <<"p", " ">>, hasHref |-> FALSE, href |-> <<>>]}
TermLists(n) == UNION {[1..k -> TermPool] : k \in 0..n}

Walking == pc \in {"nixpkgs_walk", "nixos_walk"}
DirOf(p) == IF p \in {"nixpkgs_read", "nixpkgs_walk"} THEN NixpkgsDir ELSE NixosDir

\* a step's outcome: the index state, the cursor, the register_section calls
\* made, and the line that raised (0 when none did)
Outcome(st, cursor, made, raised) ==
    [st |-> st, cursor |-> cursor, made |-> made, raised |-> raised]

\* what a walk that moves the cursor before it looks for the link would do
DtStepCursorFirst(st, doc, cursor, dir, e, keyErrorLine) ==
    IF ~e.a.found THEN Outcome(st, e.text, <<>>, 0)
    ELSE IF ~e.a.hasHref THEN Outcome(st, cursor, <<>>, keyErrorLine)
    ELSE LET key == doc \o Sep \o e.text
             link == dir \o <<"/">> \o e.a.href
         IN  Outcome(zeal_register_section(st, key, link, "Section"), e.text,
                     <<Call(key, link, "Section")>>, 0)

\* lines 173-180 and 196-203: the dt branch
DtStep(st, doc, cursor, dir, e, keyErrorLine) ==
    IF ~e.a.found THEN Outcome(st, cursor, <<>>, 0)
    ELSE IF ~e.a.hasHref THEN Outcome(st, cursor, <<>>, keyErrorLine)
    ELSE LET key == doc \o Sep \o e.text
             link == dir \o <<"/">> \o e.a.href
         IN  Outcome(zeal_register_section(st, key, link, "Section"), e.text,
                     <<Call(key, link, "Section")>>, 0)

\* lines 181-186 and 204-209: the dd branch, from chapter i on. find("a")
\* returning None makes inner_link.attrs raise AttributeError; an a without href
\* makes attrs['href'] raise KeyError, on the same line.
RECURSIVE DdStep(_, _, _, _, _, _, _, _)
DdStep(st, doc, cursor, dir, e, i, made, attrsLine) ==
    IF i > Len(e.chapters) THEN Outcome(st, cursor, made, 0)
    ELSE LET item == e.chapters[i]
         IN  IF ~item.a.found \/ ~item.a.hasHref THEN Outcome(st, cursor, made, attrsLine)
             ELSE LET key == doc \o Sep \o cursor \o Sep \o item.text
                      link == dir \o <<"/">> \o item.a.href
                  IN  DdStep(zeal_register_section(st, key, link, "Guide"), doc, cursor, dir, e,
                             i + 1, Append(made, Call(key, link, "Guide")), attrsLine)

Init ==
    /\ program = "main"
    /\ pc = "setup"
    /\ fileTable = NoTable /\ rows = NoTable /\ OBJECTS = EmptyDict
    /\ calls = <<>> /\ ncalls = 0 /\ runs = 1 /\ prevFile = NoTable
    /\ IdleIngest /\ IdleZeal

Raise(line) == pc' = "failed" /\ failure' = line

\* lines 168-172 and 189-195: read and parse index.html, set DOC_NAME and
\* SECTION_NAME, select div.toc (None.findChildren raises AttributeError).
ReadToc ==
    /\ pc \in {"nixpkgs_read", "nixos_read"}
    /\ \E t \in Tocs(MaxNodes - nodes) : toc' = t /\ nodes' = nodes + Nodes(t.children)
    /\ DOC_NAME' = IF pc = "nixpkgs_read" THEN NixpkgsManual ELSE NixosManual
    /\ SECTION_NAME' = Preface
    /\ idx' = 1
    /\ calls' = <<>>
    /\ IF toc'.found
       THEN pc' = (IF pc = "nixpkgs_read" THEN "nixpkgs_walk" ELSE "nixos_walk") /\ failure' = failure
       ELSE Raise(IF pc = "nixpkgs_read" THEN 172 ELSE 195)
    /\ UNCHANGED <<program, fileTable, rows, OBJECTS, ncalls, runs, prevFile, ingestVars,
                   options, archive, documents>>

Apply(out) ==
    /\ rows' = out.st.rows /\ OBJECTS' = out.st.OBJECTS
    /\ calls' = calls \o out.made
    /\ SECTION_NAME' = out.cursor
    /\ IF out.raised = 0
       THEN idx' = idx + 1 /\ pc' = pc /\ failure' = failure
       ELSE idx' = idx /\ Raise(out.raised)

WalkDt ==
    /\ Walking /\ idx <= Len(toc.children)
    /\ toc.children[idx].tag = "dt"
    /\ Apply(DtStep([rows |-> rows, OBJECTS |-> OBJECTS], DOC_NAME, SECTION_NAME, DirOf(pc),
                    toc.children[idx], IF pc = "nixpkgs_walk" THEN 177 ELSE 200))
    /\ UNCHANGED <<program, fileTable, ncalls, runs, prevFile, ingestVars,
                   toc, DOC_NAME, options, archive, documents, nodes>>

WalkDd ==
    /\ Walking /\ idx <= Len(toc.children)
    /\ toc.children[idx].tag = "dd"
    /\ Apply(DdStep([rows |-> rows, OBJECTS |-> OBJECTS], DOC_NAME, SECTION_NAME, DirOf(pc),
                    toc.children[idx], 1, <<>>, IF pc = "nixpkgs_walk" THEN 184 ELSE 207))
    /\ UNCHANGED <<program, fileTable, ncalls, runs, prevFile, ingestVars,
                   toc, DOC_NAME, options, archive, documents, nodes>>

\* any other descendant of div.toc: neither if applies
WalkOther ==
    /\ Walking /\ idx <= Len(toc.children)
    /\ toc.children[idx].tag \notin {"dt", "dd"}
    /\ idx' = idx + 1
    /\ UNCHANGED <<pc, indexVars, ingestVars, toc, DOC_NAME, SECTION_NAME, options, archive,
                   documents, failure, nodes>>

WalkEnd ==
    /\ Walking /\ idx > Len(toc.children)
    /\ pc' = IF pc = "nixpkgs_walk" THEN "nixos_read" ELSE "options_read"
    /\ UNCHANGED <<indexVars, ingestVars, zealVars>>

\* lines 211-214
ReadOptions ==
    /\ pc = "options_read"
    /\ \E terms \in TermLists(MaxNodes - nodes) : options' = terms /\ nodes' = nodes + Len(terms)
    /\ DOC_NAME' = NixosOptions
    /\ idx' = 1
    /\ calls' = <<>>
    /\ pc' = "options_scan"
    /\ UNCHANGED <<program, fileTable, rows, OBJECTS, ncalls, runs, prevFile, ingestVars,
                   toc, SECTION_NAME, archive, documents, failure>>

\* lines 215-220: the element select("a.term") yields is never None, so the
\* test of line 217 never skips; attrs['href'] raises KeyError without href.
TermStep(st, doc, term) ==
    IF ~term.hasHref THEN Outcome(st, <<>>, <<>>, 219)
    ELSE LET key == doc \o Sep \o term.text
             link == NixosDir \o <<"/">> \o term.href
         IN  Outcome(zeal_register_section(st, key, link, "Option"), <<>>,
                     <<Call(key, link, "Option")>>, 0)

ScanTerm ==
    /\ pc = "options_scan" /\ idx <= Len(options)
    /\ LET out == TermStep([rows |-> rows, OBJECTS |-> OBJECTS], DOC_NAME, options[idx])
       IN  /\ rows' = out.st.rows /\ OBJECTS' = out.st.OBJECTS
           /\ calls' = calls \o out.made
           /\ IF out.raised = 0
              THEN idx' = idx + 1 /\ pc' = pc /\ failure' = failure
              ELSE idx' = idx /\ Raise(out.raised)
    /\ UNCHANGED <<program, fileTable, ncalls, runs, prevFile, ingestVars,
                   toc, DOC_NAME, SECTION_NAME, options, archive, documents, nodes>>

\* lines 222-224: the loop is over, commit and close, write Info.plist
Commit ==
    /\ pc = "options_scan" /\ idx > Len(options)
    /\ fileTable' = rows
    /\ pc' = "tar_open"
    /\ UNCHANGED <<program, rows, OBJECTS, calls, ncalls, runs, prevFile, ingestVars, zealVars>>

\* line 225: tarfile.open(output_file, 'w:gz') creates the file
TarOpen ==
    /\ pc = "tar_open"
    /\ archive' = "partial"
    /\ pc' = "copy_nixpkgs"
    /\ UNCHANGED <<indexVars, ingestVars, toc, idx, DOC_NAME, SECTION_NAME, options, documents,
                   failure, nodes>>

\* lines 226-227: copy_deep of one page tree; shutil.copytree may raise, and the
\* with statement then closes the archive file and leaves it where it is
CopyTree ==
    /\ pc \in {"copy_nixpkgs", "copy_nixos"}
    /\ \E ok \in BOOLEAN :
          IF ok
          THEN /\ documents' = documents \cup {IF pc = "copy_nixpkgs" THEN "nixpkgs" ELSE "nixos"}
               /\ pc' = (IF pc = "copy_nixpkgs" THEN "copy_nixos" ELSE "tar_add")
               /\ failure' = failure
          ELSE /\ documents' = documents
               /\ Raise(IF pc = "copy_nixpkgs" THEN 226 ELSE 227)
    /\ UNCHANGED <<indexVars, ingestVars, toc, idx, DOC_NAME, SECTION_NAME, options, archive, nodes>>

\* line 229 and the end of the with statement: the docset is added, the archive closed
TarAdd ==
    /\ pc = "tar_add"
    /\ archive' = "complete"
    /\ pc' = "done"
    /\ UNCHANGED <<indexVars, ingestVars, toc, idx, DOC_NAME, SECTION_NAME, options, documents,
                   failure, nodes>>

\* lines 145-166: the bundle directories, the connection, the table setup
ZealSetup ==
    /\ pc = "setup"
    /\ fileTable' = RecreateTable(fileTable)
    /\ rows' = fileTable'
    /\ pc' = "nixpkgs_read"
    /\ UNCHANGED <<program, OBJECTS, calls, ncalls, runs, prevFile, ingestVars, zealVars>>

Next ==
    \/ ZealSetup
    \/ ReadToc
    \/ WalkDt
    \/ WalkDd
    \/ WalkOther
    \/ WalkEnd
    \/ ReadOptions
    \/ ScanTerm
    \/ Commit
    \/ TarOpen
    \/ CopyTree
    \/ TarAdd

Spec == Init /\ [][Next]_vars

(***************************************************************************)
(* Claims on the index (SpecIndex).                                        *)
(***************************************************************************)
\* The triple a register_section call asks the table to store.
StoredTriple(prog, c) ==
    IF prog = "main" THEN <<strip(c.key), c.kind, strip(c.value)>>
    ELSE <<strip(c.key), c.kind, <<"#">> \o strip(c.key)>>

SameTriple(i, j) == StoredTriple(program, calls[i]) = StoredTriple(program, calls[j])

NoDuplicateTriple == \A r1, r2 \in rows.rows : Triple(r1) = Triple(r2) => r1 = r2

\* C1: after any sequence of register_section calls the table never holds two
\* rows with the same (name, type, path); a call whose triple is already stored
\* adds no row, and no call changes or removes a stored row (first writer wins).
C1_UniqueFirstWriterWins ==
    /\ []NoDuplicateTriple
    /\ [][(pc = "ingest" /\ pc' = "ingest")
            => /\ rows.rows \subseteq rows'.rows
               /\ StoredTriple(program, calls'[Len(calls')]) \in Triples(rows) => rows' = rows]_vars

C1_Witness ==
    /\ pc = "ingest"
    /\ \E i, j \in 1..Len(calls) : i < j /\ SameTriple(i, j)
    /\ Cardinality(rows.rows) < Len(calls)

FirstWithTriple(i) == \A h \in 1..(i - 1) : ~SameTriple(h, i)

LastWithName(i) == \A j \in (i + 1)..Len(calls) : strip(calls[j].key) # strip(calls[i].key)

\* C8 as stated: the mapping has one entry per name, and when two records with
\* the same triple and different bodies are registered it keeps the body of the
\* first one registered.
C8_FirstBodyKept ==
    pc \in {"ingest", "closed"} =>
        /\ DOMAIN OBJECTS = {strip(calls[i].key) : i \in 1..Len(calls)}
        /\ \A i, j \in 1..Len(calls) :
              (i < j /\ SameTriple(i, j) /\ FirstWithTriple(i)
                 /\ strip(calls[i].value) # strip(calls[j].value))
              => OBJECTS[strip(calls[i].key)] = strip(calls[i].value)

\* C8 amended: the mapping has one entry per name, holding the body of the last
\* record registered under that name.
C8_LastBodyKept ==
    pc \in {"ingest", "closed"} =>
        /\ DOMAIN OBJECTS = {strip(calls[i].key) : i \in 1..Len(calls)}
        /\ \A i \in 1..Len(calls) :
              LastWithName(i) => OBJECTS[strip(calls[i].key)] = strip(calls[i].value)

C8_Witness ==
    /\ pc = "ingest"
    /\ \E i, j \in 1..Len(calls) :
          /\ i < j /\ SameTriple(i, j) /\ LastWithName(j)
          /\ strip(calls[i].value) # strip(calls[j].value)
          /\ OBJECTS[strip(calls[i].key)] = strip(calls[j].value)

\* C9: a build over an index file that already holds a searchIndex table leaves
\* exactly the triples of the current input in the file, so building twice over
\* the same input gives the same row set.
C9_RebuildFromScratch ==
    pc = "closed" =>
        /\ fileTable.exists
        /\ Triples(fileTable) = {StoredTriple(program, calls[i]) : i \in 1..Len(calls)}
        /\ Cardinality(fileTable.rows) = Cardinality(Triples(fileTable))

C9_Witness ==
    /\ pc = "closed"
    /\ runs = 2
    /\ prevFile.exists
    /\ calls # <<>>
    /\ \E t \in Triples(prevFile) : t \notin Triples(fileTable)

(***************************************************************************)
(* Claims on ingest_lib_documentation (SpecIngest).                        *)
(***************************************************************************)
LibFoo == <<"l", "i", "b", ".", "f", "o", "o">>
DefinedAtTrailer ==
    <<"D", "e", "f", "i", "n", "e", "d", " ", "a", "t", ":", " ">> \o SubSeq(LocLine, 3, Len(LocLine))

\* one complete function: the signature line ` foo = x: x`, later the location
\* line, and no other signature or location line
OneCompleteFoo(stream) ==
    \E i, j \in 1..Len(stream) :
        /\ i < j /\ stream[i] = SigFoo /\ stream[j] = LocLine
        /\ \A k \in (1..Len(stream)) \ {i, j} : ~IsSignature(stream[k]) /\ ~IsLocation(stream[k])

\* C2: for a stream holding one complete function ` foo = x: x` the ingest
\* registers exactly one Function record, named exactly lib.foo, whose body ends
\* with "Defined at: /nix/store/abc/lib/default.nix:10".
C2_OneFunctionNamedFoo ==
    (pc = "returned" /\ OneCompleteFoo(lines)) =>
        /\ Len(calls) = 1
        /\ {<<r.name, r.type>> : r \in rows.rows} = {<<LibFoo, "Function">>}
        /\ DOMAIN OBJECTS = {LibFoo}
        /\ endswith(OBJECTS[LibFoo], DefinedAtTrailer)

\* the location lines the loop reaches: the line after one is discarded unread
RECURSIVE ProcessedLocations(_, _)
ProcessedLocations(stream, i) ==
    IF i > Len(stream) THEN <<>>
    ELSE IF IsLocation(stream[i]) THEN <<i>> \o ProcessedLocations(stream, i + 2)
    ELSE ProcessedLocations(stream, i + 1)

\* C3: the ingest emits exactly one record per location line it processes, a
\* signature line with no location line after it contributes no record, and a
\* stream that ends mid-accumulation emits none.
C3_OneRecordPerLocation ==
    pc = "returned" =>
        /\ emitAt = ProcessedLocations(lines, 1)
        /\ Len(calls) = Len(emitAt)
        /\ \A i \in 1..Len(lines) :
              (IsSignature(lines[i]) /\ \A j \in (i + 1)..Len(lines) : ~IsLocation(lines[j]))
              => \A k \in 1..Len(emitAt) : emitAt[k] < i
        /\ (\A j \in 1..Len(lines) : ~IsLocation(lines[j])) => (calls = <<>> /\ rows.rows = {})

C3_Witness ==
    /\ pc = "returned"
    /\ Len(calls) = 1
    /\ \E i \in 1..Len(lines) : IsSignature(lines[i]) /\ i > emitAt[1] + 1
    /\ lines[Len(lines)] = DocLine

\* C10: every record the ingest emits is named from a signature line read
\* since the previous emit (or the start of the stream) and not discarded as
\* the separator: no record is emitted while the cursor is unset.
C10_NamedFromSignature ==
    pc \in {"loop", "returned"} =>
        \A k \in 1..Len(emitAt) :
            \E i \in 1..(emitAt[k] - 1) :
                /\ IsSignature(lines[i])
                /\ k > 1 => i > emitAt[k - 1] + 1
                /\ calls[k].key = Base \o <<".">> \o splitFirst(remove_ansi_escape_codes(lines[i]), "=")

(***************************************************************************)
(* Claims on generate_zeal (Spec).                                         *)
(***************************************************************************)
Linked(a) == a.found /\ a.hasHref

\* the title of the last linked chapter marker before element i, Preface when none
RECURSIVE ChapterBefore(_, _)
ChapterBefore(children, i) ==
    IF i <= 1 THEN Preface
    ELSE IF children[i - 1].tag = "dt" /\ Linked(children[i - 1].a) THEN children[i - 1].text
    ELSE ChapterBefore(children, i - 1)

WalkOver == pc \in {"nixos_read", "options_read"}

\* a first chapter without link, a second chapter t with a link, one guide entry
TwoChapterToc(t) ==
    <<Dt(<<"A">>, NoA), Dt(t, A(HrefOf(t))), Dd(<<Chapter(<<"g">>, A(<<"#", "g">>))>>)>>

\* C4: in the table-of-contents walk a chapter marker without a hyperlink emits
\* no record and leaves the cursor unchanged, one with a hyperlink emits exactly
\* one Section record and sets the cursor to its text, and every Guide record of
\* a section-group is named with the title of the most recent linked chapter
\* marker before that section-group (Preface when none); the two-chapter TOC
\* yields one Section and one Guide, both prefixed with the second title.
C4_ChapterCursor ==
    /\ [][Walking =>
            LET e == toc.children[idx]
                made == SubSeq(calls', Len(calls) + 1, Len(calls'))
            IN  idx <= Len(toc.children) =>
                  /\ (e.tag = "dt" /\ ~Linked(e.a)) => (made = <<>> /\ SECTION_NAME' = SECTION_NAME)
                  /\ (e.tag = "dt" /\ Linked(e.a)) =>
                        /\ SECTION_NAME' = e.text
                        /\ Len(made) = 1
                        /\ made[1].kind = "Section"
                        /\ made[1].key = DOC_NAME \o Sep \o e.text
                  /\ e.tag = "dd" =>
                        /\ SECTION_NAME' = SECTION_NAME
                        /\ \A k \in 1..Len(made) :
                              /\ made[k].kind = "Guide"
                              /\ made[k].key = DOC_NAME \o Sep \o ChapterBefore(toc.children, idx)
                                                 \o Sep \o e.chapters[k].text
                  /\ e.tag \notin {"dt", "dd"} => (made = <<>> /\ SECTION_NAME' = SECTION_NAME)]_vars
    /\ [](\A t \in TitlePool :
            (WalkOver /\ toc.children = TwoChapterToc(t)) =>
                /\ Len(calls) = 2
                /\ calls[1].kind = "Section" /\ calls[1].key = DOC_NAME \o Sep \o t
                /\ calls[2].kind = "Guide" /\ calls[2].key = DOC_NAME \o Sep \o t \o Sep \o <<"g">>
                /\ {r.name : r \in {x \in rows.rows : startswith(x.name, DOC_NAME)}}
                     = {strip(calls[1].key), strip(calls[2].key)})

C4_Witness ==
    /\ pc = "options_read"
    /\ toc.children = TwoChapterToc(<<"B", "\n">>)
    /\ Len(calls) = 2
    /\ SECTION_NAME = <<"B", "\n">>

RECURSIVE CountTerms(_)
CountTerms(terms) ==
    IF terms = <<>> THEN 0 ELSE (IF Head(terms).hasHref THEN 1 ELSE 0) + CountTerms(Tail(terms))

ScanOver == pc \in {"tar_open", "copy_nixpkgs", "copy_nixos", "tar_add", "done"}

\* C5: in the options scan a term anchor without href is skipped and the scan
\* continues, so the Option records emitted are as many as the term anchors
\* that have an href (three anchors, one without href: two records).
C5_TermWithoutHrefSkipped ==
    /\ failure # 219
    /\ ScanOver =>
          /\ Len(calls) = CountTerms(options)
          /\ \A k \in 1..Len(calls) : calls[k].kind = "Option"

RECURSIVE CountLinked(_)
CountLinked(children) ==
    IF children = <<>> THEN 0
    ELSE LET e == Head(children)
         IN  (IF e.tag = "dt" /\ Linked(e.a) THEN 1 ELSE 0)
               + Cardinality({k \in 1..Len(e.chapters) : Linked(e.chapters[k].a)})
               + CountLinked(Tail(children))

\* C6: in the table-of-contents walk a sub-entry of a section-group without a
\* hyperlink only skips that entry: the walk does not abort, and the records of
\* every other chapter marker and sub-entry are still emitted.
C6_GuideWithoutLinkSkipped ==
    /\ failure \notin {184, 207}
    /\ WalkOver => Len(calls) = CountLinked(toc.children)

\* C7: the archive at output_file comes into existence only after the index is
\* committed and all page trees are copied, and no archive exists at output_file
\* at the end of a run in which a step failed.
C7_NoPartialArchive ==
    /\ archive # "absent" =>
          (fileTable = rows /\ fileTable.exists /\ documents = {"nixpkgs", "nixos"})
    /\ pc = "failed" => archive = "absent"

====
